---- MODULE Spec2Model ----
(***************************************************************************)
(* Model of the logrus hook for fluentd (src/fluent.go).                   *)
(*                                                                         *)
(* The hook is built by NewWithConfig, configured by its setters and       *)
(* invoked through Fire, which turns a log entry into a (tag, record)      *)
(* pair and hands it to the fluentd client.  Fire is modelled statement    *)
(* by statement so that several calls on the same hook can interleave.     *)
(*                                                                         *)
(* Go values of type interface{} are records [t |-> type, v |-> payload];  *)
(* a logrus.Fields map is a function from a finite set of field names.     *)
(* A []logrus.Level is modelled by the set of its elements.                *)
(***************************************************************************)
EXTENDS Integers, Sequences, FiniteSets, TLC

\* ---------------------------------------------------------------- bounds
\* Number of setter calls (SetLevels, SetTag, ...) made on one hook.
MaxSetCalls == 2
\* Number of fields in the Data map of one entry.
MaxFields == 2
\* Goroutines that call Fire at the same time in SpecConc.
NumProcs == 2

\* ------------------------------------------------------ program constants
TagField == "tag"
MessageField == "message"
LevelField == "level"

\* logrus.Level values.
PanicLevel == 0
FatalLevel == 1
ErrorLevel == 2
WarnLevel == 3
InfoLevel == 4
DebugLevel == 5
TraceLevel == 6

defaultLevels == {PanicLevel, FatalLevel, ErrorLevel, WarnLevel, InfoLevel}

\* entry.Level.String()
LevelString(l) ==
    CASE l = PanicLevel -> "panic"
      [] l = FatalLevel -> "fatal"
      [] l = ErrorLevel -> "error"
      [] l = WarnLevel  -> "warning"
      [] l = InfoLevel  -> "info"
      [] l = DebugLevel -> "debug"
      [] l = TraceLevel -> "trace"
      [] OTHER          -> "unknown"

\* ------------------------------------------------------------ Go values
StrVal(s) == [t |-> "string", v |-> s]
IntVal(s) == [t |-> "int", v |-> s]
IsString(x) == x.t = "string"

\* logrus.Fields operations.
EmptyFields == [k \in {} |-> StrVal("")]
Has(m, k) == k \in DOMAIN m
Put(m, k, x) == [f \in (DOMAIN m) \cup {k} |-> IF f = k THEN x ELSE m[f]]
Del(m, k) == [f \in (DOMAIN m) \ {k} |-> m[f]]

\* *string: nil or a pointer to a string.
NilTag == [set |-> FALSE, s |-> ""]
PtrTag(s) == [set |-> TRUE, s |-> s]

\* ------------------------------------------------------- input domains
Keys == {"tag", "level", "message", "user"}

\* Values a caller stores under each field name.
FieldValues(k) ==
    CASE k = "tag"     -> {StrVal("svc"), IntVal("7")}
      [] k = "level"   -> {StrVal("spoof")}
      [] k = "message" -> {StrVal("explicit")}
      [] OTHER         -> {StrVal("bob")}

FieldMaps ==
    UNION {
        {m \in [D -> UNION {FieldValues(k) : k \in D}] :
            \A k \in D : m[k] \in FieldValues(k)} :
        D \in {S \in SUBSET Keys : Cardinality(S) <= MaxFields}}

EntryLevels == {WarnLevel, DebugLevel}
Messages == {"boom"}

\* The entries logged: at warning level every field map, a "tag" that is
\* not a string being the only field of its map; at the other levels an
\* entry has no field or a "level" field of its own.
AllEntries ==
    {e \in [Level : EntryLevels, Message : Messages, Data : FieldMaps] :
        /\ e.Level = WarnLevel \/ DOMAIN e.Data \subseteq {LevelField}
        /\ (TagField \in DOMAIN e.Data /\ ~IsString(e.Data[TagField]))
              => DOMAIN e.Data = {TagField}}

\* The entries logged concurrently: one field, a string tag or a user field.
ConcEntries ==
    {e \in AllEntries :
        /\ e.Level = WarnLevel
        /\ Cardinality(DOMAIN e.Data) = 1
        /\ DOMAIN e.Data \subseteq {"tag", "user"}
        /\ \A k \in DOMAIN e.Data : IsString(e.Data[k])}

NoEntry == [Level |-> TraceLevel, Message |-> "", Data |-> EmptyFields]

\* Filter functions func(interface{}) interface{} registered by callers.
FilterKinds == {"upper", "count"}

\* Arguments of AddFilter.
FilterArgs ==
    {<<"message", "upper">>, <<"level", "upper">>, <<"user", "upper">>}

\* Arguments of AddIgnore.
IgnoreArgs == {"level", "message"}

Upper(s) ==
    CASE s = "boom"     -> "BOOM"
      [] s = "explicit" -> "EXPLICIT"
      [] s = "svc"      -> "SVC"
      [] s = "spoof"    -> "SPOOF"
      [] s = "bob"      -> "BOB"
      [] OTHER          -> s

\* fn(v) for a registered filter fn.
ApplyFilter(fn, x) ==
    CASE fn = "upper" -> (IF IsString(x) THEN StrVal(Upper(x.v)) ELSE x)
      [] fn = "count" -> IntVal("0")
      [] OTHER        -> x

\* Customizer functions func(entry, data) registered by callers; each
\* writes only the record it is given.
CustomizerKinds == {"setTag", "delLevel"}

\* fn(entry, data) for a registered customizer fn.
ApplyCustomizer(fn, e, d) ==
    CASE fn = "setTag"   -> Put(d, TagField, StrVal("custom"))
      [] fn = "delLevel" -> Del(d, LevelField)
      [] OTHER           -> d

\* Config values handed to NewWithConfig.
Config(pool, levels, tag, field, ignore, filters) ==
    [DisableConnectionPool |-> ~pool,
     LogLevels             |-> levels,
     DefaultTag            |-> tag,
     DefaultMessageField   |-> field,
     DefaultIgnoreFields   |-> ignore,
     DefaultFilters        |-> filters]

Configs ==
    {Config(TRUE, {}, "", "", {"user"}, EmptyFields),
     Config(FALSE, {ErrorLevel, DebugLevel}, "fixed", "message", {}, EmptyFields)}

ConcConfigs ==
    {Config(TRUE, {}, "", "", {}, EmptyFields),
     Config(FALSE, {}, "", "", {"user"}, [k \in {"tag"} |-> "count"])}

\* ------------------------------------------------------------ the hook
\* Variant of NewWithConfig: Config.LogLevels is taken as it is, without the
\* default for an empty list.
NewWithConfigNoDefaultLevels(conf) ==
    [Fluent       |-> ~conf.DisableConnectionPool,
     conf         |-> conf,
     levels       |-> conf.LogLevels,
     tag          |-> IF conf.DefaultTag # "" THEN PtrTag(conf.DefaultTag) ELSE NilTag,
     messageField |-> IF conf.DefaultMessageField # ""
                      THEN conf.DefaultMessageField ELSE MessageField,
     ignoreFields |-> conf.DefaultIgnoreFields,
     filters      |-> conf.DefaultFilters,
     customizers  |-> << >>]

\* NewWithConfig, for a Connect that succeeds (a failed Connect returns no
\* hook at all).
NewWithConfig(conf) ==
    [Fluent       |-> ~conf.DisableConnectionPool,
     conf         |-> conf,
     levels       |-> IF conf.LogLevels = {} THEN defaultLevels ELSE conf.LogLevels,
     tag          |-> IF conf.DefaultTag # "" THEN PtrTag(conf.DefaultTag) ELSE NilTag,
     messageField |-> IF conf.DefaultMessageField # ""
                      THEN conf.DefaultMessageField ELSE MessageField,
     ignoreFields |-> conf.DefaultIgnoreFields,
     filters      |-> conf.DefaultFilters,
     customizers  |-> << >>]

\* hook.Levels()
Levels(h) == h.levels

\* Variant of CopyField: the filter table is looked up before the ignore set.
CopyFieldFilterFirst(h, k, x, d) ==
    IF Has(h.filters, k) THEN Put(d, k, ApplyFilter(h.filters[k], x))
    ELSE IF k \in h.ignoreFields THEN d
    ELSE Put(d, k, x)

\* Variant of CopyField: the message field is copied without its filter.
CopyFieldRawMessage(h, k, x, d) ==
    IF k \in h.ignoreFields THEN d
    ELSE IF Has(h.filters, k) /\ k # h.messageField
         THEN Put(d, k, ApplyFilter(h.filters[k], x))
    ELSE Put(d, k, x)

\* One iteration of the copy loop of Fire: field k of entry.Data, holding x,
\* is copied into data d.
CopyField(h, k, x, d) ==
    IF k \in h.ignoreFields THEN d
    ELSE IF Has(h.filters, k) THEN Put(d, k, ApplyFilter(h.filters[k], x))
    ELSE Put(d, k, x)

\* Variant of setLevelString: a "level" field already copied is kept.
setLevelStringIfAbsent(e, d) ==
    IF Has(d, LevelField) THEN d
    ELSE Put(d, LevelField, StrVal(LevelString(e.Level)))

setLevelString(e, d) == Put(d, LevelField, StrVal(LevelString(e.Level)))

\* setMessage reads hook.messageField three times; its three parts follow.
\* The test "_, ok := data[hook.messageField]; ok".
setMessagePresent(h, d) == Has(d, h.messageField)

\* The value v: entry.Message, through the filter of the message field.
setMessageValue(h, e) ==
    IF Has(h.filters, h.messageField)
    THEN ApplyFilter(h.filters[h.messageField], StrVal(e.Message))
    ELSE StrVal(e.Message)

\* Variant of setMessageStore: an ignored message field is not written.
setMessageStoreUnlessIgnored(h, d, x) ==
    IF h.messageField \in h.ignoreFields THEN d ELSE Put(d, h.messageField, x)

\* The store "data[hook.messageField] = v".
setMessageStore(h, d, x) == Put(d, h.messageField, x)

\* setMessage on a hook that no setter changes meanwhile.
setMessage(h, e, d) ==
    IF setMessagePresent(h, d) THEN d
    ELSE setMessageStore(h, d, setMessageValue(h, e))

\* Variant of getTagAndDel: the tag field of the data wins over the static tag.
getTagAndDelFieldFirst(h, e, d) ==
    IF Has(d, TagField) /\ IsString(d[TagField])
    THEN [tag |-> d[TagField].v, data |-> Del(d, TagField)]
    ELSE IF h.tag.set THEN [tag |-> h.tag.s, data |-> d]
    ELSE [tag |-> e.Message, data |-> d]

\* Variant of getTagAndDel: the tag field is read and left in the data.
getTagAndKeep(h, e, d) ==
    IF h.tag.set THEN [tag |-> h.tag.s, data |-> d]
    ELSE IF ~Has(d, TagField) THEN [tag |-> e.Message, data |-> d]
    ELSE IF ~IsString(d[TagField]) THEN [tag |-> e.Message, data |-> d]
    ELSE [tag |-> d[TagField].v, data |-> d]

\* getTagAndDel: the tag it returns and the data it leaves.
getTagAndDel(h, e, d) ==
    IF h.tag.set THEN [tag |-> h.tag.s, data |-> d]
    ELSE IF ~Has(d, TagField) THEN [tag |-> e.Message, data |-> d]
    ELSE IF ~IsString(d[TagField]) THEN [tag |-> e.Message, data |-> d]
    ELSE [tag |-> d[TagField].v, data |-> Del(d, TagField)]

\* ConvertToValue(data, TagName) on a map of scalar values: the same keys,
\* every scalar kept as it is.
ConvertToValue(d) == [k \in DOMAIN d |-> d[k]]

\* The switch at the head of Fire up to the return of Connect, given the
\* outcome of Connect: the logger used, the number of connections the call
\* opened and the value of err.
FireLogger(h, connectOk) ==
    IF h.Fluent
    THEN [logger |-> "shared", created |-> 0, err |-> "none"]
    ELSE IF connectOk
         THEN [logger |-> "own", created |-> 1, err |-> "none"]
         ELSE [logger |-> "own", created |-> 0, err |-> "connErr"]

\* Variant of FireDefer: the connection of the call is never released.
FireDeferNever(logger, err) ==
    IF logger = "shared" THEN [ret |-> "none", deferred |-> FALSE]
    ELSE IF err # "none" THEN [ret |-> err, deferred |-> FALSE]
    ELSE [ret |-> "none", deferred |-> FALSE]

\* Variant of FireDefer: the error of Connect is dropped.
FireDeferIgnoreErr(logger, err) ==
    IF logger = "shared" THEN [ret |-> "none", deferred |-> FALSE]
    ELSE [ret |-> "none", deferred |-> TRUE]

\* The rest of the switch, run after Connect has returned: the early return
\* on its error, else the deferred Disconnect.
FireDefer(logger, err) ==
    IF logger = "shared" THEN [ret |-> "none", deferred |-> FALSE]
    ELSE IF err # "none" THEN [ret |-> err, deferred |-> FALSE]
    ELSE [ret |-> "none", deferred |-> TRUE]

\* Variant of MakeFields: data is entry.Data itself, not a new map.
MakeFieldsAlias(p) == 0

\* make(logrus.Fields): the address of the map Fire fills.  Address p > 0 is
\* a map freshly allocated for the call of goroutine p; address 0 is the
\* map entry.Data itself.
MakeFields(p) == p

\* The copy loop of Fire over the fields keys of src, into d.
RECURSIVE CopyAll(_, _, _, _)
CopyAll(h, src, keys, d) ==
    IF keys = {} THEN d
    ELSE LET k == CHOOSE x \in keys : TRUE
         IN  CopyAll(h, src, keys \ {k}, CopyField(h, k, src[k], d))

\* The customizers fns from the i-th on, run on d.
RECURSIVE RunCustomizers(_, _, _, _)
RunCustomizers(fns, e, i, d) ==
    IF i > Len(fns) THEN d
    ELSE RunCustomizers(fns, e, i + 1, ApplyCustomizer(fns[i], e, d))

\* What one Fire call on entry e hands to SendMessage when nothing else runs.
FireAlone(h, e) ==
    LET copied == CopyAll(h, e.Data, DOMAIN e.Data, EmptyFields)
        stamped == setMessage(h, e, setLevelString(e, copied))
        r == getTagAndDel(h, e, RunCustomizers(h.customizers, e, 1, stamped))
    IN  [tag |-> r.tag, record |-> ConvertToValue(r.data)]

\* ---------------------------------------------------------------- state
Procs == 1 .. NumProcs

VARIABLES
    hook,           \* the FluentHook
    nset,           \* setter calls made so far
    lastSetLevels,  \* history: argument of the most recent SetLevels call
    lastSetTag,     \* history: argument of the most recent SetTag call
    fluentConn,     \* state of the connection held in hook.Fluent
    aborted,        \* the Go runtime has stopped the program
    edata,          \* heap: the Data map of every entry
    rdata,          \* heap: the map allocated by the Fire call of each goroutine
    fire            \* the Fire call of each goroutine: its locals and its trace

vars ==
    <<hook, nset, lastSetLevels, lastSetTag, fluentConn, aborted, edata, rdata, fire>>

NoLevels == [set |-> FALSE, levels |-> {}]

\* A goroutine that is not inside Fire.
Idle ==
    [pc       |-> "idle",
     entry    |-> NoEntry,
     logger   |-> "nil",
     deferred |-> FALSE,
     data     |-> 0,
     todo     |-> {},
     fns      |-> << >>,       \* the slice the customizer loop ranges over
     ci       |-> 0,
     v        |-> StrVal(""),  \* v of setMessage
     tag      |-> "",
     err      |-> "none",
     ret      |-> "none",
     conn     |-> "none",      \* the connection opened by this call
     connect  |-> "none",      \* trace: outcome of Connect in this call
     created  |-> 0,           \* trace: connections opened by this call
     closed   |-> 0,           \* trace: Disconnect calls made by this call
     changed  |-> FALSE,       \* trace: a setter ran since the call began
     before   |-> EmptyFields, \* trace: data when the customizers start
     tagRead  |-> NilTag,      \* trace: hook.tag as getTagAndDel read it
     seen     |-> EmptyFields, \* trace: data when getTagAndDel is called
     sends    |-> << >>]       \* trace: the SendMessage calls of this call

AllIdle == \A p \in Procs : fire[p].pc = "idle"

InitWith(C) ==
    /\ \E conf \in C :
        /\ hook = NewWithConfig(conf)
        /\ fluentConn = IF conf.DisableConnectionPool THEN "none" ELSE "open"
    /\ nset = 0
    /\ lastSetLevels = NoLevels
    /\ lastSetTag = NilTag
    /\ aborted = FALSE
    /\ edata = [e \in AllEntries |-> e.Data]
    /\ rdata = [p \in Procs |-> EmptyFields]
    /\ fire = [p \in Procs |-> Idle]

Init == InitWith(Configs)

InitConc == InitWith(ConcConfigs)

\* ------------------------------------------------------------- setters
\* A setter has no guard in the code: it runs at any time, between two
\* statements of a Fire call in progress too (called by another goroutine,
\* or by a filter or a customizer of the call).  Called by another goroutine
\* it races with the reads of Fire: the call reads the old or the new value,
\* or the race has one of the outcomes of the actions named ...Race.
\* hook.tag is one pointer, read whole.
CanSet == ~aborted /\ nset < MaxSetCalls

\* The call of p has begun and its result is not taken yet.
InFire(p) == fire[p].pc # "idle"

Configure(h) ==
    /\ CanSet
    /\ hook' = h
    /\ nset' = nset + 1
    /\ fire' = [p \in Procs |->
                  IF InFire(p) THEN [fire[p] EXCEPT !.changed = TRUE] ELSE fire[p]]
    /\ UNCHANGED <<fluentConn, aborted, edata, rdata>>

LevelArgs == {{DebugLevel}}

SetLevels ==
    \E levels \in LevelArgs :
        /\ Configure([hook EXCEPT !.levels = levels])
        /\ lastSetLevels' = [set |-> TRUE, levels |-> levels]
        /\ UNCHANGED lastSetTag

TagArgs == {""}

SetTag ==
    \E tag \in TagArgs :
        /\ Configure([hook EXCEPT !.tag = PtrTag(tag)])
        /\ lastSetTag' = PtrTag(tag)
        /\ UNCHANGED lastSetLevels

MessageFieldArgs == {"tag", "level"}

SetMessageField ==
    \E messageField \in MessageFieldArgs :
        /\ Configure([hook EXCEPT !.messageField = messageField])
        /\ UNCHANGED <<lastSetLevels, lastSetTag>>

AddIgnore ==
    \E name \in IgnoreArgs :
        /\ Configure([hook EXCEPT !.ignoreFields = @ \cup {name}])
        /\ UNCHANGED <<lastSetLevels, lastSetTag>>

AddFilter ==
    \E a \in FilterArgs :
        /\ Configure([hook EXCEPT !.filters = Put(@, a[1], a[2])])
        /\ UNCHANGED <<lastSetLevels, lastSetTag>>

AddCustomizer ==
    \E fn \in CustomizerKinds :
        /\ Configure([hook EXCEPT !.customizers = Append(@, fn)])
        /\ UNCHANGED <<lastSetLevels, lastSetTag>>

\* The program is stopped: by the Go runtime ("concurrent map read and map
\* write"), by a fault on a value read half written, or by a panic that no
\* caller recovers.
Abort ==
    /\ aborted' = TRUE
    /\ UNCHANGED <<hook, nset, lastSetLevels, lastSetTag, fluentConn, edata, rdata, fire>>

\* ---------------------------------------------------------------- Fire
\* The map a Fire call works on.
Data(p) == IF fire[p].data = 0 THEN edata[fire[p].entry] ELSE rdata[fire[p].data]

\* Store m in the map at address a of the call of p.
Store(p, a, m) ==
    IF a = 0
    THEN /\ edata' = [edata EXCEPT ![fire[p].entry] = m]
         /\ UNCHANGED rdata
    ELSE /\ rdata' = [rdata EXCEPT ![a] = m]
         /\ UNCHANGED edata

Step(p, f) == fire' = [fire EXCEPT ![p] = f]

\* The call of p is at statement l.
At(p, l) == ~aborted /\ fire[p].pc = l

\* Fire is called: the logger is chosen and, without persistent logger,
\* created and connected.
FireBegin(p, E) ==
    /\ At(p, "idle")
    /\ \E e \in E, connectOk \in BOOLEAN :
        LET l == FireLogger(hook, connectOk)
        IN  /\ (hook.Fluent => connectOk)
            /\ Step(p, [Idle EXCEPT
                          !.pc = "connected",
                          !.entry = e,
                          !.logger = l.logger,
                          !.err = l.err,
                          !.conn = IF l.created > 0 THEN "open" ELSE "none",
                          !.connect = IF hook.Fluent THEN "none"
                                      ELSE IF connectOk THEN "ok" ELSE "fail",
                          !.created = l.created])
    /\ UNCHANGED <<hook, nset, lastSetLevels, lastSetTag, fluentConn, aborted,
                   edata, rdata>>

\* After the switch has its logger: the return on the error of Connect, or
\* the deferred Disconnect, the new map and the start of the copy loop.
FireMake(p) ==
    /\ At(p, "connected")
    /\ LET d == FireDefer(fire[p].logger, fire[p].err)
           a == MakeFields(p)
           e == fire[p].entry
       IN  IF d.ret # "none"
           THEN /\ Step(p, [fire[p] EXCEPT !.pc = "done", !.ret = d.ret])
                /\ UNCHANGED <<edata, rdata>>
           ELSE /\ Step(p, [fire[p] EXCEPT
                              !.pc = IF DOMAIN edata[e] = {} THEN "level" ELSE "copy",
                              !.deferred = d.deferred,
                              !.data = a,
                              !.todo = DOMAIN edata[e]])
                /\ IF a = 0 THEN UNCHANGED <<edata, rdata>>
                   ELSE /\ rdata' = [rdata EXCEPT ![a] = EmptyFields]
                        /\ UNCHANGED edata
    /\ UNCHANGED <<hook, nset, lastSetLevels, lastSetTag, fluentConn, aborted>>

\* One iteration of "for k, v := range entry.Data", in any order.
FireCopy(p) ==
    /\ At(p, "copy")
    /\ \E k \in fire[p].todo :
        /\ Store(p, fire[p].data,
                 CopyField(hook, k, edata[fire[p].entry][k], Data(p)))
        /\ Step(p, [fire[p] EXCEPT
                      !.todo = @ \ {k},
                      !.pc = IF fire[p].todo = {k} THEN "level" ELSE "copy"])
    /\ UNCHANGED <<hook, nset, lastSetLevels, lastSetTag, fluentConn, aborted>>

FireLevel(p) ==
    /\ At(p, "level")
    /\ Store(p, fire[p].data, setLevelString(fire[p].entry, Data(p)))
    /\ Step(p, [fire[p] EXCEPT !.pc = "message"])
    /\ UNCHANGED <<hook, nset, lastSetLevels, lastSetTag, fluentConn, aborted>>

\* The statement of setMessage the call of p is at, run on the hook as the
\* statement reads it; c tells whether a setter has run since the call began.
SetMessageStep(p, h, c) ==
    \/ /\ At(p, "message")
       /\ Step(p, [fire[p] EXCEPT
                     !.pc = IF setMessagePresent(h, Data(p)) THEN "range"
                            ELSE "msgvalue",
                     !.changed = c])
       /\ UNCHANGED <<edata, rdata>>
    \/ /\ At(p, "msgvalue")
       /\ Step(p, [fire[p] EXCEPT
                     !.pc = "msgstore",
                     !.v = setMessageValue(h, fire[p].entry),
                     !.changed = c])
       /\ UNCHANGED <<edata, rdata>>
    \/ /\ At(p, "msgstore")
       /\ Store(p, fire[p].data, setMessageStore(h, Data(p), fire[p].v))
       /\ Step(p, [fire[p] EXCEPT !.pc = "range", !.changed = c])

\* setMessage: the test on data[hook.messageField].
FireMessage(p) ==
    /\ At(p, "message")
    /\ SetMessageStep(p, hook, fire[p].changed)
    /\ UNCHANGED <<hook, nset, lastSetLevels, lastSetTag, fluentConn, aborted>>

\* setMessage: v is entry.Message, filtered.
FireMessageValue(p) ==
    /\ At(p, "msgvalue")
    /\ SetMessageStep(p, hook, fire[p].changed)
    /\ UNCHANGED <<hook, nset, lastSetLevels, lastSetTag, fluentConn, aborted>>

\* setMessage: data[hook.messageField] = v.
FireMessageStore(p) ==
    /\ At(p, "msgstore")
    /\ SetMessageStep(p, hook, fire[p].changed)
    /\ UNCHANGED <<hook, nset, lastSetLevels, lastSetTag, fluentConn, aborted>>

\* The name a read of hook.messageField yields when it takes the pointer of
\* one string and the length of another.
TornField == "torn"

\* SetMessageField in one goroutine writes the string hook.messageField
\* while a statement of setMessage in another reads it half written.
SetMessageFieldRace ==
    \E messageField \in MessageFieldArgs, p \in Procs :
        /\ CanSet
        /\ SetMessageStep(p, [hook EXCEPT !.messageField = TornField], TRUE)
        /\ hook' = [hook EXCEPT !.messageField = messageField]
        /\ nset' = nset + 1
        /\ UNCHANGED <<lastSetLevels, lastSetTag, fluentConn, aborted>>

\* "range hook.customizers" takes the slice once, before the first iteration.
FireRange(p) ==
    /\ At(p, "range")
    /\ Step(p, [fire[p] EXCEPT
                  !.pc = IF Len(hook.customizers) = 0 THEN "tag" ELSE "custom",
                  !.fns = hook.customizers,
                  !.ci = 1,
                  !.before = Data(p)])
    /\ UNCHANGED <<hook, nset, lastSetLevels, lastSetTag, fluentConn, aborted,
                   edata, rdata>>

\* The deferred calls of the call f run: Disconnect, if deferred.
RunDeferred(f) ==
    [f EXCEPT
       !.conn = IF f.deferred /\ f.logger = "own" THEN "closed" ELSE @,
       !.closed = IF f.deferred THEN @ + 1 ELSE @]

\* The persistent connection after the deferred calls of the call f.
FluentAfterDeferred(f) ==
    IF f.deferred /\ f.logger = "shared" THEN "closed" ELSE fluentConn

\* The call f panics on the call of a nil func: its deferred calls run and
\* the panic leaves Fire, with no SendMessage and no return value.
Panic(f) == [RunDeferred(f) EXCEPT !.pc = "panicked"]

\* The element of a slice of funcs, or the value of a map of funcs, that is
\* read before AddCustomizer or AddFilter has stored it.
NilFunc == "nil"

\* One iteration of "for _, fn := range hook.customizers".
FireCustomize(p) ==
    /\ At(p, "custom")
    /\ IF fire[p].fns[fire[p].ci] = NilFunc
       THEN /\ Step(p, Panic(fire[p]))
            /\ fluentConn' = FluentAfterDeferred(fire[p])
            /\ UNCHANGED <<edata, rdata>>
       ELSE /\ Store(p, fire[p].data,
                     ApplyCustomizer(fire[p].fns[fire[p].ci], fire[p].entry,
                                     Data(p)))
            /\ Step(p, [fire[p] EXCEPT
                          !.ci = @ + 1,
                          !.pc = IF fire[p].ci = Len(fire[p].fns)
                                 THEN "tag" ELSE "custom"])
            /\ UNCHANGED fluentConn
    /\ UNCHANGED <<hook, nset, lastSetLevels, lastSetTag, aborted>>

FireTag(p) ==
    /\ At(p, "tag")
    /\ LET r == getTagAndDel(hook, fire[p].entry, Data(p))
       IN  /\ Store(p, fire[p].data, r.data)
           /\ Step(p, [fire[p] EXCEPT
                         !.pc = "send",
                         !.tag = r.tag,
                         !.tagRead = hook.tag,
                         !.seen = Data(p)])
    /\ UNCHANGED <<hook, nset, lastSetLevels, lastSetTag, fluentConn, aborted>>

\* ConvertToValue and logger.SendMessage, which succeeds or fails.
FireSend(p) ==
    /\ At(p, "send")
    /\ \E sendErr \in {"nil", "sendErr"} :
        Step(p, [fire[p] EXCEPT
                   !.pc = "return",
                   !.err = sendErr,
                   !.sends = Append(@,
                       [tag    |-> fire[p].tag,
                        record |-> ConvertToValue(Data(p)),
                        logger |-> fire[p].logger,
                        open   |-> IF fire[p].logger = "shared"
                                   THEN fluentConn = "open"
                                   ELSE fire[p].conn = "open",
                        err    |-> sendErr])])
    /\ UNCHANGED <<hook, nset, lastSetLevels, lastSetTag, fluentConn, aborted,
                   edata, rdata>>

\* "return err" and the deferred Disconnect.
FireReturn(p) ==
    /\ At(p, "return")
    /\ Step(p, [RunDeferred(fire[p]) EXCEPT !.pc = "done", !.ret = fire[p].err])
    /\ fluentConn' = FluentAfterDeferred(fire[p])
    /\ UNCHANGED <<hook, nset, lastSetLevels, lastSetTag, aborted, edata, rdata>>

\* The caller takes the result; the goroutine is free for its next call.
FireEnd(p) ==
    /\ At(p, "done")
    /\ Step(p, Idle)
    /\ UNCHANGED <<hook, nset, lastSetLevels, lastSetTag, fluentConn, aborted,
                   edata, rdata>>

\* The caller of a call that panicked recovers; the goroutine is free for
\* its next call.
FireRecover(p) ==
    /\ At(p, "panicked")
    /\ Step(p, Idle)
    /\ UNCHANGED <<hook, nset, lastSetLevels, lastSetTag, fluentConn, aborted,
                   edata, rdata>>

\* No caller of a call that panicked recovers.
FireCrash(p) ==
    /\ At(p, "panicked")
    /\ Abort

\* --------------------------------------------------------------- races
\* The setter call that races with the call of p has written hook' = h; the
\* call of p goes on as f.
Raced(p, h, f) ==
    /\ hook' = h
    /\ nset' = nset + 1
    /\ fire' = [q \in Procs |->
                  IF q = p THEN [f EXCEPT !.changed = TRUE]
                  ELSE IF InFire(q) THEN [fire[q] EXCEPT !.changed = TRUE]
                  ELSE fire[q]]
    /\ UNCHANGED <<lastSetLevels, lastSetTag, aborted, edata, rdata>>

\* AddIgnore in one goroutine writes hook.ignoreFields while the copy loop
\* of a Fire call in another reads it.
AddIgnoreRace ==
    /\ CanSet
    /\ \E p \in Procs : fire[p].pc = "copy"
    /\ Abort

\* AddFilter in one goroutine writes hook.filters while the copy loop or
\* setMessage of a Fire call in another reads it: the runtime stops the
\* program, or the lookup of the name being added finds the key without
\* its func and the call of the nil func panics.
AddFilterRace ==
    \E a \in FilterArgs, p \in Procs :
        /\ CanSet
        /\ fire[p].pc \in {"copy", "msgvalue"}
        /\ \/ Abort
           \/ /\ a[1] \notin DOMAIN hook.filters
              /\ IF fire[p].pc = "copy"
                 THEN a[1] \in fire[p].todo \ hook.ignoreFields
                 ELSE a[1] = hook.messageField
              /\ Raced(p, [hook EXCEPT !.filters = Put(@, a[1], a[2])],
                       Panic(fire[p]))
              /\ fluentConn' = FluentAfterDeferred(fire[p])

\* AddCustomizer in one goroutine writes the slice hook.customizers while a
\* Fire call in another reads it for its loop: a header read half written
\* has the new length without the new element, which the loop reads as a
\* nil func after the customizers before it, or as a value whose call
\* stops the program.
AddCustomizerRace ==
    \E fn \in CustomizerKinds, p \in Procs :
        /\ CanSet
        /\ fire[p].pc = "range"
        /\ \/ Abort
           \/ /\ Raced(p, [hook EXCEPT !.customizers = Append(@, fn)],
                       [fire[p] EXCEPT
                          !.pc = "custom",
                          !.fns = Append(hook.customizers, NilFunc),
                          !.ci = 1,
                          !.before = Data(p)])
              /\ UNCHANGED fluentConn

\* ------------------------------------------------------ specifications
Begin == FireBegin(1, AllEntries)
Make == FireMake(1)
Copy == FireCopy(1)
Level == FireLevel(1)
Message == FireMessage(1)
MessageValue == FireMessageValue(1)
MessageStore == FireMessageStore(1)
Range == FireRange(1)
Customize == FireCustomize(1)
Tag == FireTag(1)
Send == FireSend(1)
Return == FireReturn(1)
End == FireEnd(1)
Recover == FireRecover(1)
Crash == FireCrash(1)

\* One goroutine logs; the hook is reconfigured at any time, during its
\* calls too.
Next ==
    \/ SetLevels
    \/ SetTag
    \/ SetMessageField
    \/ AddIgnore
    \/ AddFilter
    \/ AddCustomizer
    \/ AddIgnoreRace
    \/ AddFilterRace
    \/ AddCustomizerRace
    \/ SetMessageFieldRace
    \/ Begin
    \/ Make
    \/ Copy
    \/ Level
    \/ Message
    \/ MessageValue
    \/ MessageStore
    \/ Range
    \/ Customize
    \/ Tag
    \/ Send
    \/ Return
    \/ End
    \/ Recover
    \/ Crash

Spec == Init /\ [][Next]_vars

ConcBegin == \E p \in Procs : FireBegin(p, ConcEntries)
ConcMake == \E p \in Procs : FireMake(p)
ConcCopy == \E p \in Procs : FireCopy(p)
ConcLevel == \E p \in Procs : FireLevel(p)
ConcMessage == \E p \in Procs : FireMessage(p)
ConcMessageValue == \E p \in Procs : FireMessageValue(p)
ConcMessageStore == \E p \in Procs : FireMessageStore(p)
ConcRange == \E p \in Procs : FireRange(p)
ConcCustomize == \E p \in Procs : FireCustomize(p)
ConcTag == \E p \in Procs : FireTag(p)
ConcSend == \E p \in Procs : FireSend(p)
ConcReturn == \E p \in Procs : FireReturn(p)
ConcEnd == \E p \in Procs : FireEnd(p)

\* Several goroutines log through a hook that no setter changes while a
\* call is in progress.
NextConc ==
    \/ (AllIdle /\ nset = 0 /\ AddCustomizer)
    \/ ConcBegin
    \/ ConcMake
    \/ ConcCopy
    \/ ConcLevel
    \/ ConcMessage
    \/ ConcMessageValue
    \/ ConcMessageStore
    \/ ConcRange
    \/ ConcCustomize
    \/ ConcTag
    \/ ConcSend
    \/ ConcReturn
    \/ ConcEnd

SpecConc == InitConc /\ [][NextConc]_vars

\* -------------------------------------------------------------- claims
\* The SendMessage calls made so far by the Fire call of p.
Sends(p) == {fire[p].sends[i] : i \in 1 .. Len(fire[p].sends)}

\* The Fire call of p has run setLevelString and setMessage and has reached
\* the customizer loop.
Stamped(p) == fire[p].pc \in {"custom", "tag", "send", "return", "done"}
                /\ fire[p].ret # "connErr"

\* No setter has run since the Fire call of p began: the hook is the
\* configuration the whole call has run on.
Unchanged(p) == ~fire[p].changed

\* The Fire call of p has run getTagAndDel.
Tagged(p) == fire[p].pc \in {"send", "return", "done"} /\ fire[p].ret # "connErr"

\* The Fire call of p has returned.
Returned(p) == fire[p].pc = "done"

\* The Fire call of p was left by a panic.
Panicked(p) == fire[p].pc = "panicked"

\* The static tag as the constructor and the setter calls define it.
StaticTag ==
    IF lastSetTag.set THEN lastSetTag
    ELSE IF hook.conf.DefaultTag # "" THEN PtrTag(hook.conf.DefaultTag)
    ELSE NilTag

\* C1: the static tag of the hook is the one set by Config.DefaultTag or by
\* the most recent SetTag call, the empty string included; the tag sent is
\* the static tag the hook holds when the call resolves the tag, if one is
\* set; otherwise the string held under "tag" by the data as the customizers
\* leave it; otherwise entry.Message.
C1_TagPrecedence ==
    /\ hook.tag = StaticTag
    /\ \A p \in Procs :
        LET f == fire[p]
            expected ==
                IF f.tagRead.set THEN f.tagRead.s
                ELSE IF TagField \in DOMAIN f.seen /\ f.seen[TagField].t = "string"
                     THEN f.seen[TagField].v
                ELSE f.entry.Message
        IN  /\ (Tagged(p) /\ Unchanged(p)) => f.tagRead = StaticTag
            /\ Tagged(p) => f.tag = expected
            /\ \A m \in Sends(p) : m.tag = expected

\* A call has sent the empty static tag given to SetTag although the data
\* held a string under "tag".
C1_Witness ==
    \E p \in Procs :
        /\ Returned(p)
        /\ lastSetTag = PtrTag("")
        /\ fire[p].tagRead = PtrTag("")
        /\ TagField \in DOMAIN fire[p].seen
        /\ fire[p].seen[TagField].t = "string"
        /\ \E m \in Sends(p) : m.tag = ""

\* C2 as stated: with no customizers, no name of ignoreFields is a key of
\* the record sent by a call on that configuration.
C2_IgnoredNeverSent ==
    \A p \in Procs :
        (Unchanged(p) /\ hook.customizers = << >>) =>
            \A m \in Sends(p) : DOMAIN m.record \cap hook.ignoreFields = {}

\* The value setLevelString and setMessage give to field k of entry e.
StampedValue(h, e, k) ==
    IF k = LevelField THEN StrVal(LevelString(e.Level))
    ELSE IF k \in DOMAIN h.filters THEN ApplyFilter(h.filters[k], StrVal(e.Message))
    ELSE StrVal(e.Message)

\* C2 amended: with no customizers and no setter call during the Fire call,
\* a name of ignoreFields other than "level" and the message field name is
\* never a key of the record sent; "level" and the message field are
\* written after the copy pass even when ignored, and then hold the stamped
\* value, never the value of the entry.
C2_IgnoredNotCopied ==
    \A p \in Procs :
        (Unchanged(p) /\ hook.customizers = << >>) =>
            \A m \in Sends(p) :
                \A k \in DOMAIN m.record \cap hook.ignoreFields :
                    /\ k \in {LevelField, hook.messageField}
                    /\ m.record[k] = StampedValue(hook, fire[p].entry, k)

\* An ignored field with a filter registered for it was in the entry and is
\* not in the record sent.
C2_Witness ==
    \E p \in Procs :
        /\ Returned(p)
        /\ Unchanged(p)
        /\ hook.customizers = << >>
        /\ "user" \in hook.ignoreFields
        /\ "user" \in DOMAIN hook.filters
        /\ "user" \in DOMAIN fire[p].entry.Data
        /\ \E m \in Sends(p) : "user" \notin DOMAIN m.record

\* C3 as stated: a message field supplied by the entry reaches the record
\* unchanged although a filter is registered for it.
C3_SuppliedMessageUnfiltered ==
    \A p \in Procs :
        LET f == fire[p]
            mf == hook.messageField
        IN  (/\ Stamped(p)
             /\ Unchanged(p)
             /\ mf \in DOMAIN f.entry.Data
             /\ mf \in DOMAIN hook.filters)
            => (mf \in DOMAIN f.before /\ f.before[mf] = f.entry.Data[mf])

\* C3 amended: with no setter call during the Fire call, a message field
\* supplied by the entry, not ignored and not named "level", holds the
\* filter's result on the supplied value when the customizers start;
\* setMessage leaves it as the copy pass wrote it.
C3_SuppliedMessageFiltered ==
    \A p \in Procs :
        LET f == fire[p]
            mf == hook.messageField
        IN  (/\ Stamped(p)
             /\ Unchanged(p)
             /\ mf \in DOMAIN f.entry.Data
             /\ mf \in DOMAIN hook.filters
             /\ mf \notin hook.ignoreFields
             /\ mf # LevelField)
            => (/\ mf \in DOMAIN f.before
                /\ f.before[mf] = ApplyFilter(hook.filters[mf], f.entry.Data[mf]))

\* The entry supplied "message", an upper-casing filter is registered for it
\* and the record sent holds the upper-cased value.
C3_Witness ==
    \E p \in Procs :
        /\ Returned(p)
        /\ Unchanged(p)
        /\ hook.messageField = "message"
        /\ "message" \in DOMAIN fire[p].entry.Data
        /\ "message" \in DOMAIN hook.filters
        /\ hook.filters["message"] = "upper"
        /\ \E m \in Sends(p) :
            /\ "message" \in DOMAIN m.record
            /\ m.record["message"] = StrVal("EXPLICIT")

\* C4 as stated: the record sent never has the key "tag".
C4_TagNeverSent ==
    \A p \in Procs : \A m \in Sends(p) : TagField \notin DOMAIN m.record

\* C4 amended: the record sent has the key "tag" exactly when the data the
\* customizers leave holds "tag" and either a static tag is set when the
\* call resolves the tag or the value is not a string; the field then is
\* sent unchanged.
C4_TagSentIffNotUsed ==
    \A p \in Procs :
        \A m \in Sends(p) :
            LET seen == fire[p].seen
                kept == /\ TagField \in DOMAIN seen
                        /\ (fire[p].tagRead.set \/ seen[TagField].t # "string")
            IN  /\ (TagField \in DOMAIN m.record) <=> kept
                /\ kept => m.record[TagField] = seen[TagField]

\* A static tag is set and the string "tag" field of the entry is sent in
\* the record.
C4_Witness ==
    \E p \in Procs :
        /\ Returned(p)
        /\ fire[p].tagRead.set
        /\ TagField \in DOMAIN fire[p].entry.Data
        /\ \E m \in Sends(p) :
            /\ TagField \in DOMAIN m.record
            /\ m.record[TagField] = StrVal("svc")

\* C5 as stated: with no customizers, the record sent has the keys "level"
\* and the message field name, whatever that name is.
C5_LevelAndMessageSent ==
    \A p \in Procs :
        (Unchanged(p) /\ hook.customizers = << >>) =>
            \A m \in Sends(p) :
                /\ LevelField \in DOMAIN m.record
                /\ hook.messageField \in DOMAIN m.record

\* C5 amended: with no customizers and no setter call during the Fire call,
\* the record sent has the key "level", and has the message field name as a
\* key unless that name is "tag", no static tag is set and the value under
\* it is a string: getTagAndDel then takes the field out of the record as
\* the tag.
C5_LevelAndMessageUnlessTag ==
    \A p \in Procs :
        (Unchanged(p) /\ hook.customizers = << >>) =>
            \A m \in Sends(p) :
                LET mf == hook.messageField
                    seen == fire[p].seen
                    taken == /\ mf = TagField
                             /\ ~hook.tag.set
                             /\ seen[mf].t = "string"
                IN  /\ LevelField \in DOMAIN m.record
                    /\ mf \in DOMAIN seen
                    /\ (mf \in DOMAIN m.record) <=> ~taken

\* The message field is named "tag", a static tag is set and the record
\* sent has both "level" and "tag".
C5_Witness ==
    \E p \in Procs :
        /\ Returned(p)
        /\ Unchanged(p)
        /\ hook.customizers = << >>
        /\ hook.messageField = TagField
        /\ hook.tag.set
        /\ \E m \in Sends(p) :
            /\ LevelField \in DOMAIN m.record
            /\ TagField \in DOMAIN m.record
            /\ m.record[TagField] = StrVal("boom")

\* A customizer run by the Fire call of p writes or deletes "level".
CustomizersTouchLevel(p) ==
    \E i \in 1 .. Len(fire[p].fns) : fire[p].fns[i] = "delLevel"

\* C6: when the customizers start, "level" holds the string form of the
\* severity of the entry, whatever the entry, the ignore set, the filters
\* and the message field name the call runs on are; so does the record sent
\* when no customizer touches "level".
C6_LevelIsSeverity ==
    \A p \in Procs :
        LET f == fire[p]
            level == StrVal(LevelString(f.entry.Level))
        IN  /\ (Stamped(p) /\ Unchanged(p)) =>
                (LevelField \in DOMAIN f.before /\ f.before[LevelField] = level)
            /\ (Unchanged(p) /\ ~CustomizersTouchLevel(p)) =>
                \A m \in Sends(p) :
                    (LevelField \in DOMAIN m.record /\ m.record[LevelField] = level)

\* The entry carried its own "level" field, "level" is filtered and is the
\* message field name, and the record sent holds the severity.
C6_Witness ==
    \E p \in Procs :
        /\ Returned(p)
        /\ Unchanged(p)
        /\ LevelField \in DOMAIN fire[p].entry.Data
        /\ fire[p].entry.Level = DebugLevel
        /\ hook.messageField = LevelField
        /\ LevelField \in DOMAIN hook.filters
        /\ \E m \in Sends(p) : m.record[LevelField] = StrVal("debug")

\* The level set as the constructor and the setter calls define it.
ConfiguredLevels ==
    IF lastSetLevels.set THEN lastSetLevels.levels
    ELSE IF hook.conf.LogLevels # {} THEN hook.conf.LogLevels
    ELSE {PanicLevel, FatalLevel, ErrorLevel, WarnLevel, InfoLevel}

\* C7 as stated: for an entry whose severity is outside the level set, Fire
\* builds no record and sends nothing.
C7_OutsideLevelsNotSent ==
    \A p \in Procs :
        (/\ fire[p].pc # "idle"
         /\ Unchanged(p)
         /\ fire[p].entry.Level \notin Levels(hook))
            => (fire[p].data = 0 /\ fire[p].sends = << >>)

\* C7 amended: Levels() returns Config.LogLevels if non-empty, else the
\* default {Panic, Fatal, Error, Warn, Info}, replaced by the argument of
\* the most recent SetLevels call; Fire does not consult it: a call that
\* gets its connection sends the entry whatever its severity, so an entry
\* outside the set is dropped only by a caller that reads Levels().
C7_LevelsNotReadByFire ==
    /\ Levels(hook) = ConfiguredLevels
    /\ \A p \in Procs :
        (Returned(p) /\ fire[p].ret # "connErr") => Len(fire[p].sends) = 1

\* After a SetLevels call, an entry whose severity is outside the level set
\* was fired and sent.
C7_Witness ==
    \E p \in Procs :
        /\ Returned(p)
        /\ Unchanged(p)
        /\ lastSetLevels.set
        /\ fire[p].entry.Level \notin Levels(hook)
        /\ Len(fire[p].sends) = 1

\* C8: without a persistent logger, a Fire call whose Connect succeeds opens
\* one connection, sends on it while it is open and disconnects it once
\* before it returns, whether the send failed or not; with a persistent
\* logger every call sends on the connection made by the constructor, opens
\* none and never disconnects.  A call that the race with a setter makes
\* panic disconnects its connection once too, without a send.
C8_ConnectionLifecycle ==
    \A p \in Procs :
        LET f == fire[p]
        IN  IF hook.Fluent
            THEN /\ fluentConn = "open"
                 /\ f.created = 0
                 /\ f.closed = 0
                 /\ f.conn = "none"
                 /\ \A m \in Sends(p) : m.logger = "shared" /\ m.open
            ELSE /\ \A m \in Sends(p) : m.logger = "own" /\ m.open
                 /\ f.connect = "ok" =>
                     /\ f.created = 1
                     /\ IF Returned(p)
                        THEN f.closed = 1 /\ f.conn = "closed" /\ Len(f.sends) = 1
                        ELSE IF Panicked(p)
                        THEN f.closed = 1 /\ f.conn = "closed" /\ f.sends = << >>
                        ELSE f.closed = 0 /\ f.conn = "open"
                 /\ f.connect # "ok" => (f.created = 0 /\ f.closed = 0)

\* A call without persistent logger has returned a send error and has
\* disconnected the connection it opened.
C8_Witness ==
    \E p \in Procs :
        /\ Returned(p)
        /\ ~hook.Fluent
        /\ fire[p].ret = "sendErr"
        /\ fire[p].created = 1
        /\ fire[p].closed = 1

\* C9: a Fire call whose Connect fails returns the connect error and sends
\* nothing; every other call that returns has made one SendMessage call and
\* returns its result, nil or the error.  Only a setter racing with the call
\* makes it panic, and it then has sent nothing.
C9_ErrorOutcomes ==
    \A p \in Procs :
        LET f == fire[p]
        IN  /\ Len(f.sends) <= 1
            /\ Panicked(p) => (f.changed /\ f.sends = << >> /\ f.ret = "none")
            /\ Returned(p) =>
                IF f.connect = "fail"
                THEN f.ret = "connErr" /\ f.sends = << >>
                ELSE /\ Len(f.sends) = 1
                     /\ f.ret = f.sends[1].err
                     /\ f.ret \in {"nil", "sendErr"}

\* A call has returned the connect error without a send.
C9_Witness ==
    \E p \in Procs :
        /\ Returned(p)
        /\ fire[p].connect = "fail"
        /\ fire[p].ret = "connErr"
        /\ fire[p].sends = << >>

\* C10: under every interleaving of Fire calls on one hook, each call sends
\* the tag and the record it sends when run alone, and the Data map of
\* every entry stays as it was.
C10_ConcurrentFireIsolated ==
    /\ \A p \in Procs :
        \A m \in Sends(p) :
            LET alone == FireAlone(hook, fire[p].entry)
            IN  m.tag = alone.tag /\ m.record = alone.record
    /\ \A e \in AllEntries : edata[e] = e.Data

\* Two calls on the same entry, which has a string "tag" field, overlap: one
\* has sent, with the field taken out of its record, while the other is
\* about to read the field.
C10_Witness ==
    \E p, q \in Procs :
        /\ p # q
        /\ fire[p].entry = fire[q].entry
        /\ TagField \in DOMAIN fire[p].entry.Data
        /\ fire[p].pc = "return"
        /\ \E m \in Sends(p) : m.tag = "svc" /\ TagField \notin DOMAIN m.record
        /\ fire[q].pc = "copy"

====
